---- MODULE Spec2Model ----
(***************************************************************************)
(* Model of the EmbeddingScene component                                   *)
(* (src/components/EmbeddingScene.tsx): the vocabulary / embeddings store, *)
(* the nearest-neighbour selection, the two add paths and the load of the  *)
(* external sentence-encoder model.                                        *)
(*                                                                         *)
(* Representation.                                                         *)
(*  - A word is a sequence of character codes ("a" = <<97>>, "A" = <<65>>, *)
(*    " " = <<32>>, "1" = <<49>>), so that toLowerCase, trim, the letter   *)
(*    test and charCodeAt are computed as the code computes them.          *)
(*  - A vector is a sequence of integers.  The fallback embedding's        *)
(*    component sin(c * i/100) * cos(c) is kept in fixed point, rounded to *)
(*    1/1000 (table SinCosTable).  Vectors of the external model and of    *)
(*    the initial props are integer vectors.                               *)
(*  - A cosine distance is computed exactly, as the triple                 *)
(*    (dot, |a|^2, |b|^2) or NaN.  Distances are only ever compared (by    *)
(*    the sort comparator); the comparison is exact, and a stored item     *)
(*    carries the place of its distance in the ascending order of all      *)
(*    distances, which the comparator subtracts.                           *)
(*  - Array indices are the code's 0-based indices; sequence positions are *)
(*    index + 1.                                                           *)
(*  - An optional word (string | null) is a sequence of at most one word.  *)
(*  - The scene variables hold the state of the last render, which is     *)
(*    what the handlers of that render read.  The set-state calls of an    *)
(*    event handler are rendered with the event.  The calls made after an  *)
(*    await are kept in pendingUpdates and rendered by a later step; an    *)
(*    event handled in between reads the state of the last render, and     *)
(*    its calls come after the pending ones on the same hook.              *)
(***************************************************************************)
EXTENDS Integers, Sequences, FiniteSets, TLC

\* ------------------------------------------------------------------ bounds
\* successful adds in one session
MaxAdds == 2
\* failures of use.load() the environment produces in one session
MaxLoadFailures == 1
\* runs of the effect of useEmbeddings in one session
MaxHookEffects == 3

\* --------------------------------------------------------- program constants
\* default k of findNearestNeighbors
K == 5
\* Array(100) of fallbackAddWord
FallbackDim == 100
\* the 5 of nNeighbors: Math.min(5, currentEmbeddings.length - 1)
NNeighborsMax == 5

\* ------------------------------------------------------------------- words
W_a == <<97>>
W_ab == <<97, 98>>
W_A == <<65>>
W_space == <<32>>
W_tab == <<9>>
W_empty == <<>>
W_a1 == <<97, 49>>
W_cat == <<99, 97, 116>>
W_dog == <<100, 111, 103>>
W_fish == <<102, 105, 115, 104>>

\* what the user types into the input box
InputWords == {W_a, W_A, W_ab, W_empty, W_space, W_tab, W_a1}

NoWord == <<>>
Some(w) == <<w>>

\* String.prototype.toLowerCase on the code units
toLowerCase(w) == [i \in 1..Len(w) |-> IF w[i] \in 65..90 THEN w[i] + 32 ELSE w[i]]

\* the code units String.prototype.trim cuts: white space and line terminators
WhiteSpace ==
    {9, 10, 11, 12, 13, 32, 160, 5760, 8232, 8233, 8239, 8287, 12288, 65279}
    \cup (8192..8202)

\* !word.trim(): the word is empty once leading and trailing white space is cut
trimIsEmpty(w) == \A i \in 1..Len(w) : w[i] \in WhiteSpace

\* /^[a-zA-Z]+$/.test(word)
onlyLetters(w) == Len(w) >= 1 /\ \A i \in 1..Len(w) : w[i] \in 65..90 \/ w[i] \in 97..122

\* a validation that sets no message
validationMessage_silent(w) == ""

\* the message validateWord leaves in validationError ("" when the word is valid)
validationMessage(w) ==
    IF trimIsEmpty(w) THEN "Please enter a word."
    ELSE IF onlyLetters(w) THEN ""
    ELSE "Invalid word. Please use only letters."

\* the value validateWord returns
validateWord(w) == ~trimIsEmpty(w) /\ onlyLetters(w)

\* ----------------------------------------------------------------- vectors
\* round(1000 * sin(c * i/100) * cos(c)) for c = 1 ('a'), 2 ('b') and i = 0..99
SinCosTable ==
  << <<0, 5, 11, 16, 22, 27, 32, 38, 43, 49, 54, 59, 65, 70, 75, 81, 86, 91,
       97, 102, 107, 113, 118, 123, 128, 134, 139, 144, 149, 155, 160, 165,
       170, 175, 180, 185, 190, 195, 200, 205, 210, 215, 220, 225, 230, 235,
       240, 245, 250, 254, 259, 264, 268, 273, 278, 282, 287, 292, 296, 301,
       305, 310, 314, 318, 323, 327, 331, 336, 340, 344, 348, 352, 356, 360,
       364, 368, 372, 376, 380, 384, 388, 391, 395, 399, 402, 406, 409, 413,
       416, 420, 423, 427, 430, 433, 436, 439, 443, 446, 449, 452>>,
     <<0, -8, -17, -25, -33, -42, -50, -58, -66, -75, -83, -91, -99, -107,
       -115, -123, -131, -139, -147, -154, -162, -170, -177, -185, -192,
       -200, -207, -214, -221, -228, -235, -242, -249, -255, -262, -268,
       -274, -281, -287, -293, -299, -304, -310, -315, -321, -326, -331,
       -336, -341, -346, -350, -355, -359, -363, -367, -371, -375, -378,
       -382, -385, -388, -391, -394, -396, -399, -401, -403, -405, -407,
       -409, -410, -411, -413, -414, -414, -415, -416, -416, -416, -416,
       -416, -416, -415, -414, -414, -413, -412, -410, -409, -407, -405,
       -403, -401, -399, -396, -394, -391, -388, -385, -382>> >>

\* Math.sin(charValue * position) * Math.cos(charValue), position = i / 100
SinCos(charValue, i) == SinCosTable[charValue][i + 1]

\* chars.map((c) => c.charCodeAt(0) - 96) on the lower-cased word
charValues(w) == [j \in 1..Len(w) |-> toLowerCase(w)[j] - 96]

\* an embedding whose component i reads the letter at (i + 1) % length
simpleEmbedding_shifted(w) ==
    [p \in 1..FallbackDim |-> SinCos(charValues(w)[(p % Len(w)) + 1], p - 1)]

\* Array(100).fill(0).map((_, i) => ...): component i reads the letter at i % length
simpleEmbedding(w) ==
    [p \in 1..FallbackDim |-> SinCos(charValues(w)[((p - 1) % Len(w)) + 1], p - 1)]

\* model.embed([word]) of the external encoder: a fixed vector per (lower-case) word
USEEmbed(w) ==
    IF w = W_a THEN <<2, 2, 1>> ELSE <<2, 3, 6>>

RECURSIVE SumProd(_, _, _)
\* sum of a[i] * b[i] for i = 1..n
SumProd(a, b, n) == IF n = 0 THEN 0 ELSE SumProd(a, b, n - 1) + a[n] * b[n]

\* a distance that divides by normA * normA
cosineDistance_asym(a, b) ==
    LET sqA == SumProd(a, a, Len(a))
        sqB == SumProd(b, b, Len(b))
    IN IF Len(a) > Len(b) \/ sqA = 0 \/ sqB = 0
       THEN [nan |-> TRUE, dot |-> 0, sqA |-> 0, sqB |-> 0]
       ELSE [nan |-> FALSE, dot |-> SumProd(a, b, Len(a)), sqA |-> sqA, sqB |-> sqA]

\* The distance 1 - dot / (normA * normB), kept as its ingredients.  It is NaN
\* when b is shorter than a (b[i] is undefined, the dot product NaN) and when a
\* norm is zero (0 / 0).
cosineDistance(a, b) ==
    LET sqA == SumProd(a, a, Len(a))
        sqB == SumProd(b, b, Len(b))
    IN IF Len(a) > Len(b) \/ sqA = 0 \/ sqB = 0
       THEN [nan |-> TRUE, dot |-> 0, sqA |-> 0, sqB |-> 0]
       ELSE [nan |-> FALSE, dot |-> SumProd(a, b, Len(a)), sqA |-> sqA, sqB |-> sqB]

\* ---------------------------------------------------------------- the props
\* the store of the scenario: cat = [1,0,0], dog = [0.9,0.1,0], fish = [0,1,0], times 10
PropsScenario ==
    [vocab |-> <<W_cat, W_dog, W_fish>>,
     embeddings |-> << <<10, 0, 0>>, <<9, 1, 0>>, <<0, 10, 0>> >>]

\* seven words, more than k + 1; the words at indices 0 and 3 have the same vector
PropsSeven ==
    [vocab |-> << <<99>>, <<100>>, <<101>>, <<102>>, <<103>>, <<104>>, <<105>> >>,
     embeddings |-> << <<10, 0, 0>>, <<0, 10, 0>>, <<0, 0, 10>>, <<10, 0, 0>>,
                       <<6, 8, 0>>, <<0, 6, 8>>, <<8, 0, 6>> >>]

\* four words, the second with the zero vector
PropsZero ==
    [vocab |-> << <<112>>, <<113>>, <<114>>, <<115>> >>,
     embeddings |-> << <<10, 0, 0>>, <<0, 0, 0>>, <<9, 1, 0>>, <<0, 10, 0>> >>]

\* a seed list of one word
PropsOne ==
    [vocab |-> << W_cat >>,
     embeddings |-> << <<10, 0, 0>> >>]

\* the seed lists of the specification SpecSeeds
SeedProps == {PropsZero, PropsOne}

PropsSet == {PropsScenario, PropsSeven} \cup SeedProps

\* every vector a store can hold: those of the props, of the external model and
\* of the fallback, for the words the user can type
Vectors ==
    UNION {{props.embeddings[i] : i \in 1..Len(props.embeddings)} : props \in PropsSet}
    \cup {USEEmbed(toLowerCase(w)) : w \in {x \in InputWords : validateWord(x)}}
    \cup {simpleEmbedding(w) : w \in {x \in InputWords : validateWord(x)}}

Sign(x) == IF x > 0 THEN 1 ELSE IF x < 0 THEN -1 ELSE 0

\* Naturals beyond the machine integer, as little-endian digits to the base 100
RECURSIVE Big(_)
Big(n) == IF n = 0 THEN <<>> ELSE <<n % 100>> \o Big(n \div 100)

RECURSIVE BigTimes(_, _, _)
\* digits * m + carry, for 0 <= m < 2 * 10^7
BigTimes(digits, m, carry) ==
    IF Len(digits) = 0 THEN Big(carry)
    ELSE LET t == Head(digits) * m + carry
         IN <<t % 100>> \o BigTimes(Tail(digits), m, t \div 100)

RECURSIVE Trimmed(_)
\* without leading zero digits
Trimmed(digits) ==
    IF Len(digits) > 0 /\ digits[Len(digits)] = 0
    THEN Trimmed(SubSeq(digits, 1, Len(digits) - 1)) ELSE digits

RECURSIVE BigCmpDigits(_, _, _)
\* sign of x - y for two trimmed numbers of the same length, from digit n down
BigCmpDigits(x, y, n) ==
    IF n = 0 THEN 0
    ELSE IF x[n] # y[n] THEN Sign(x[n] - y[n])
    ELSE BigCmpDigits(x, y, n - 1)

BigCmp(x, y) ==
    LET tx == Trimmed(x)
        ty == Trimmed(y)
    IN IF Len(tx) # Len(ty) THEN Sign(Len(tx) - Len(ty)) ELSE BigCmpDigits(tx, ty, Len(tx))

Abs(x) == IF x < 0 THEN -x ELSE x

\* dot^2 * sqA' * sqB': the square of dot / (normA * normB) over a common denominator
SquaredOver(d, e) ==
    BigTimes(BigTimes(BigTimes(Big(Abs(d.dot)), Abs(d.dot), 0), e.sqA, 0), e.sqB, 0)

\* sign of d1 - d2 for two distances that are not NaN: the distance falls as
\* dot / (normA * normB) grows
DistanceCmp(d1, d2) ==
    IF Sign(d1.dot) # Sign(d2.dot) THEN Sign(Sign(d2.dot) - Sign(d1.dot))
    ELSE IF Sign(d1.dot) = 0 THEN 0
    ELSE Sign(d1.dot) * BigCmp(SquaredOver(d2, d1), SquaredOver(d1, d2))

\* every distance between two vectors a store can hold
Distances == {cosineDistance(p[1], p[2]) : p \in Vectors \X Vectors}

\* the place of a distance in the ascending order of Distances: equal distances
\* share a place, a smaller distance has a smaller place; evaluated once
DistanceOrder ==
    [d \in Distances |->
        Cardinality({e \in Distances : ~d.nan /\ ~e.nan /\ DistanceCmp(e, d) < 0})]

\* cosineDistance over Vectors, evaluated once: whether it is NaN, and its place
\* in the order of the distances (the number the comparator subtracts)
DistanceTable ==
    [a \in Vectors, b \in Vectors |->
        LET d == cosineDistance(a, b) IN [nan |-> d.nan, order |-> DistanceOrder[d]]]

\* the comparator (a, b) => a.distance - b.distance as Array.prototype.sort reads
\* it: its sign, and 0 when the difference is NaN
compareFn(x, y) ==
    IF x.distance.nan \/ y.distance.nan THEN 0
    ELSE Sign(x.distance.order - y.distance.order)

\* ---------------------------------------------------------- Array.prototype.sort
\* The engine's sort for arrays shorter than 64 elements (V8's TimSort, the
\* runtime of Node and Chromium): the leading run is counted (and reversed when
\* strictly descending), the rest is inserted by binary search.  With a
\* consistent comparator this is the stable ascending sort; with a comparator
\* that answers 0 for NaN it is this algorithm's order.

RECURSIVE CountRun(_, _, _, _)
\* length of the run that starts at position 1; idx is the next position to read
CountRun(s, idx, isDescending, runLength) ==
    IF idx > Len(s) THEN runLength
    ELSE LET order == compareFn(s[idx], s[idx - 1]) IN
         IF isDescending
         THEN IF order >= 0 THEN runLength ELSE CountRun(s, idx + 1, isDescending, runLength + 1)
         ELSE IF order < 0 THEN runLength ELSE CountRun(s, idx + 1, isDescending, runLength + 1)

RECURSIVE Reversed(_)
Reversed(s) == IF Len(s) = 0 THEN <<>> ELSE Append(Reversed(Tail(s)), Head(s))

\* the first n elements in reverse order, the rest in place
ReverseRange(s, n) == Reversed(SubSeq(s, 1, n)) \o SubSeq(s, n + 1, Len(s))

RECURSIVE BinarySearch(_, _, _, _)
\* the 0-based slot of the pivot among s[left..right-1]
BinarySearch(s, pivot, left, right) ==
    IF left < right
    THEN LET mid == left + ((right - left) \div 2) IN
         IF compareFn(pivot, s[mid + 1]) < 0
         THEN BinarySearch(s, pivot, left, mid)
         ELSE BinarySearch(s, pivot, mid + 1, right)
    ELSE left

RECURSIVE BinaryInsertionSort(_, _)
\* s[1..start] is sorted; start is the 0-based index of the next pivot
BinaryInsertionSort(s, start) ==
    IF start >= Len(s) THEN s
    ELSE LET pivot == s[start + 1]
             left == BinarySearch(s, pivot, 0, start)
             moved == SubSeq(s, 1, left) \o <<pivot>> \o SubSeq(s, left + 1, start)
                         \o SubSeq(s, start + 2, Len(s))
         IN BinaryInsertionSort(moved, start + 1)

\* items.sort((a, b) => a.distance - b.distance)
ArraySort(s) ==
    IF Len(s) < 2 THEN s
    ELSE LET isDescending == compareFn(s[2], s[1]) < 0
             runLength == CountRun(s, 3, isDescending, 2)
             run == IF isDescending THEN ReverseRange(s, runLength) ELSE s
         IN BinaryInsertionSort(run, runLength)

Min(a, b) == IF a < b THEN a ELSE b

\* Array.prototype.slice(from, to) with 0 <= from <= to
slice(s, from, to) == SubSeq(s, from + 1, Min(to, Len(s)))

RECURSIVE distanceItems(_, _, _)
\* currentEmbeddings.map((e) => cosineDistance(e, embedding))
\*                  .map((d, i) => ({ index: i, distance: d })), the first n items
distanceItems(embeddings, embedding, n) ==
    IF n = 0 THEN <<>>
    ELSE Append(distanceItems(embeddings, embedding, n - 1),
                [index |-> n - 1, distance |-> DistanceTable[embeddings[n], embedding]])

\* neighbours returned as 1-based positions
findNearestNeighbors_oneBased(embeddings, embedding, k) ==
    LET items == distanceItems(embeddings, embedding, Len(embeddings))
        sortedIndexes == slice(ArraySort(items), 1, k + 1)
    IN [i \in 1..Len(sortedIndexes) |-> sortedIndexes[i].index + 1]

\* the k-nearest neighbours of a vector: the sorted items 1..k, by index
findNearestNeighbors(embeddings, embedding, k) ==
    LET items == distanceItems(embeddings, embedding, Len(embeddings))
        sortedIndexes == slice(ArraySort(items), 1, k + 1)
    IN [i \in 1..Len(sortedIndexes) |-> sortedIndexes[i].index]

\* the vectors an add can append: the external model's and the fallback's, for
\* the words the user can type
AddedVectors ==
    {USEEmbed(toLowerCase(w)) : w \in {x \in InputWords : validateWord(x)}}
    \cup {simpleEmbedding(w) : w \in {x \in InputWords : validateWord(x)}}

\* the stores that grow out of a store by at most n appends
RECURSIVE StoresFrom(_, _)
StoresFrom(embeddings, n) ==
    IF n = 0 THEN {embeddings}
    ELSE {embeddings} \cup UNION {StoresFrom(Append(embeddings, v), n - 1) : v \in AddedVectors}

\* findNearestNeighbors(currentEmbeddings[idx]) for every store and every
\* position idx (0-based, at idx + 1) of it, evaluated once
NearestTable ==
    [embeddings \in UNION {StoresFrom(props.embeddings, MaxAdds) : props \in PropsSet} |->
        [p \in 1..Len(embeddings) |-> findNearestNeighbors(embeddings, embeddings[p], K)]]

\* new UMAP({nComponents: 3, nNeighbors: Math.min(5, n - 1), ...}).fit(data):
\* the configuration passed and the data projected; the result has one
\* coordinate per element of data, in the order of data
umapFit(data) ==
    [nNeighbors |-> Min(NNeighborsMax, Len(data) - 1), data |-> data]

\* a memo that is never recomputed (an empty dependency list)
coordsMemo_stale(prevCoords, prevEmbeddings, embeddings) == prevCoords

\* useMemo(() => umap.fit(currentEmbeddings), [currentEmbeddings]) in a render:
\* the value of the last render unless the dependency changed
coordsMemo(prevCoords, prevEmbeddings, embeddings) ==
    IF embeddings = prevEmbeddings THEN prevCoords ELSE umapFit(embeddings)

\* a lookup that reads the last occurrence instead of the first
indexOf_last(vocab, w) ==
    IF \E i \in 1..Len(vocab) : vocab[i] = w
    THEN (CHOOSE i \in 1..Len(vocab) : vocab[i] = w /\ \A j \in (i + 1)..Len(vocab) : vocab[j] # w) - 1
    ELSE -1

\* Array.prototype.indexOf: the first index holding the word, -1 when absent
indexOf(vocab, w) ==
    IF \E i \in 1..Len(vocab) : vocab[i] = w
    THEN (CHOOSE i \in 1..Len(vocab) : vocab[i] = w /\ \A j \in 1..(i - 1) : vocab[j] # w) - 1
    ELSE -1

\* -------------------------------------------------------------------- state
VARIABLES
    currentVocab,       \* useState(vocab)
    currentEmbeddings,  \* useState(embeddings)
    inputValue,         \* text of the input box
    isInputVisible,     \* the floating input is shown
    validationError,    \* message under the input ("" for none)
    highlightedWord,    \* NoWord or Some(word)
    isProcessing,       \* an add is running
    model,              \* the loaded encoder: FALSE for null
    isModelLoading,     \* a load is marked as running
    nearestIndexes,     \* 0-based indices of the highlighted neighbours
    coords3d,           \* useMemo: the projection shown by the last render
    effectPending,      \* the load effect is scheduled (mount, or a dependency changed)
    pendingUpdates,     \* set-state calls made after an await, not yet rendered
    loadsInFlight,      \* unsettled use.load() promises
    pendingEmbed,       \* the word of the unsettled model.embed() promise, or NoWord
    loadsStarted,       \* history: calls of use.load()
    loadFailures,       \* history: rejected loads
    nAdded,             \* history: successful adds
    hookWords,          \* useEmbeddings: the words of the last render
    hookEmbeddings,     \* useEmbeddings: useState(null), NoEmbeddings or Some(array)
    hookEffects,        \* useEmbeddings: the effects run so far, the last one current
    hookMounted,        \* the component that calls useEmbeddings is mounted
    hookFlush           \* a render was committed, its cleanup and effect are still to run

sceneVars == <<currentVocab, currentEmbeddings, inputValue, isInputVisible, validationError,
          highlightedWord, isProcessing, model, isModelLoading, nearestIndexes,
          coords3d, effectPending, pendingUpdates, loadsInFlight, pendingEmbed,
          loadsStarted, loadFailures, nAdded>>

hookVars == <<hookWords, hookEmbeddings, hookEffects, hookMounted, hookFlush>>

vars == <<sceneVars, hookVars>>

storeVars == <<currentVocab, currentEmbeddings>>
selectionVars == <<highlightedWord, nearestIndexes>>
inputVars == <<inputValue, isInputVisible, validationError>>
loadVars == <<model, isModelLoading, effectPending, loadsInFlight, loadsStarted, loadFailures>>

\* one call of a state setter: the hook and the value (or the updater's argument)
Update(hook, arg) == [hook |-> hook, arg |-> arg]

\* the calls that are left once a later call has set the hooks anew
Superseded(updates, hooks) == SelectSeq(updates, LAMBDA u : u.hook \notin hooks)

\* the state after the first render of <EmbeddingScene vocab embeddings />
Mounted(props) ==
    /\ currentVocab = props.vocab
    /\ currentEmbeddings = props.embeddings
    /\ inputValue = W_empty
    /\ isInputVisible = FALSE
    /\ validationError = ""
    /\ highlightedWord = NoWord
    /\ isProcessing = FALSE
    /\ model = FALSE
    /\ isModelLoading = FALSE
    /\ nearestIndexes = <<>>
    /\ coords3d = umapFit(props.embeddings)
    /\ effectPending = TRUE
    /\ pendingUpdates = <<>>
    /\ loadsInFlight = 0
    /\ pendingEmbed = NoWord
    /\ loadsStarted = 0
    /\ loadFailures = 0
    /\ nAdded = 0

\* --------------------------------------------------------- the load effect
\* an effect that does not test isModelLoading before it loads
loadUSEModel_noGuard ==
    /\ effectPending
    /\ effectPending' = FALSE
    /\ IF ~model
       THEN /\ pendingUpdates' = Append(pendingUpdates, Update("isModelLoading", TRUE))
            /\ loadsInFlight' = loadsInFlight + 1
            /\ loadsStarted' = loadsStarted + 1
       ELSE UNCHANGED <<pendingUpdates, loadsInFlight, loadsStarted>>
    /\ UNCHANGED <<model, isModelLoading, loadFailures, storeVars, coords3d, selectionVars,
                   inputVars, isProcessing, pendingEmbed, nAdded>>
    /\ UNCHANGED hookVars

\* useEffect(..., [model, isModelLoading]): runs after the commit of every render
\* in which a dependency changed, before the next event is handled. It reads
\* model and isModelLoading of that render; setIsModelLoading(true) is called
\* outside an event handler and is rendered later, use.load() is started.
loadUSEModel ==
    /\ effectPending
    /\ effectPending' = FALSE
    /\ IF ~model /\ ~isModelLoading
       THEN /\ pendingUpdates' = Append(pendingUpdates, Update("isModelLoading", TRUE))
            /\ loadsInFlight' = loadsInFlight + 1
            /\ loadsStarted' = loadsStarted + 1
       ELSE UNCHANGED <<pendingUpdates, loadsInFlight, loadsStarted>>
    /\ UNCHANGED <<model, isModelLoading, loadFailures, storeVars, coords3d, selectionVars,
                   inputVars, isProcessing, pendingEmbed, nAdded>>
    /\ UNCHANGED hookVars

\* await use.load() resolves: setModel(loadedModel); finally
\* setIsModelLoading(false). The calls are made outside an event handler and
\* are rendered later.
loadResolved ==
    /\ ~effectPending
    /\ loadsInFlight > 0
    /\ pendingUpdates' = pendingUpdates \o
            <<Update("model", TRUE), Update("isModelLoading", FALSE)>>
    /\ loadsInFlight' = loadsInFlight - 1
    /\ UNCHANGED <<model, isModelLoading, effectPending, loadsStarted, loadFailures, storeVars,
                   coords3d, selectionVars, inputVars, isProcessing, pendingEmbed, nAdded>>
    /\ UNCHANGED hookVars

\* await use.load() rejects: the error is logged; finally setIsModelLoading(false)
loadRejected ==
    /\ ~effectPending
    /\ loadsInFlight > 0
    /\ loadFailures < MaxLoadFailures
    /\ pendingUpdates' = Append(pendingUpdates, Update("isModelLoading", FALSE))
    /\ loadsInFlight' = loadsInFlight - 1
    /\ loadFailures' = loadFailures + 1
    /\ UNCHANGED <<model, isModelLoading, effectPending, loadsStarted, storeVars, coords3d,
                   selectionVars, inputVars, isProcessing, pendingEmbed, nAdded>>
    /\ UNCHANGED hookVars

\* ------------------------------------------------------------------ the adds
\* an updater that puts the new word in front
appendWord_prepend(prevVocab, newWord) == <<newWord>> \o prevVocab

\* (prevVocab) => [...prevVocab, newWord]
appendWord(prevVocab, newWord) == Append(prevVocab, newWord)

\* an updater that puts the new embedding in front
appendEmbedding_front(prevEmbeddings, newEmbedding) == <<newEmbedding>> \o prevEmbeddings

\* (prevEmbeddings) => [...prevEmbeddings, newEmbedding]
appendEmbedding(prevEmbeddings, newEmbedding) == Append(prevEmbeddings, newEmbedding)

\* addWord up to its first await: validation, the model test, setIsProcessing(true)
\* and the call of model.embed([newWord.toLowerCase()])
addWord(newWord) ==
    IF ~validateWord(newWord)
    THEN /\ validationError' = validationMessage(newWord)
         /\ pendingUpdates' = Superseded(pendingUpdates, {"validationError"})
         /\ UNCHANGED <<inputValue, isInputVisible, isProcessing, pendingEmbed>>
    ELSE IF ~model
    THEN /\ validationError' = "Model is still loading. Please try again in a moment."
         /\ pendingUpdates' = Superseded(pendingUpdates, {"validationError"})
         /\ UNCHANGED <<inputValue, isInputVisible, isProcessing, pendingEmbed>>
    ELSE /\ validationError' = ""
         /\ isProcessing' = TRUE
         /\ pendingEmbed' = Some(newWord)
         /\ pendingUpdates' = Superseded(pendingUpdates, {"validationError", "isProcessing"})
         /\ UNCHANGED <<inputValue, isInputVisible>>

\* addWord after the awaits, the embedding delivered: the appends, the input
\* cleared and hidden, the new word highlighted; finally setIsProcessing(false).
\* The calls are made outside an event handler and are rendered later.
embedResolved ==
    /\ ~effectPending
    /\ pendingEmbed # NoWord
    /\ LET newWord == pendingEmbed[1]
           newEmbedding == USEEmbed(toLowerCase(newWord))
       IN pendingUpdates' = pendingUpdates \o
            <<Update("currentVocab", newWord),
              Update("currentEmbeddings", newEmbedding),
              Update("inputValue", W_empty),
              Update("isInputVisible", FALSE),
              Update("highlightedWord", Some(newWord)),
              Update("isProcessing", FALSE)>>
    /\ pendingEmbed' = NoWord
    /\ nAdded' = nAdded + 1
    /\ UNCHANGED <<storeVars, coords3d, selectionVars, inputVars, isProcessing, loadVars>>
    /\ UNCHANGED hookVars

\* a rejection handled without the finally block
embedRejected_noFinally ==
    /\ ~effectPending
    /\ pendingEmbed # NoWord
    /\ pendingUpdates' = Append(pendingUpdates,
            Update("validationError", "Failed to generate embedding for this word."))
    /\ pendingEmbed' = NoWord
    /\ UNCHANGED <<storeVars, coords3d, selectionVars, inputVars, isProcessing, loadVars, nAdded>>
    /\ UNCHANGED hookVars

\* a catch block that also clears and hides the input
embedRejected_clearsInput ==
    /\ ~effectPending
    /\ pendingEmbed # NoWord
    /\ pendingUpdates' = pendingUpdates \o
            <<Update("validationError", "Failed to generate embedding for this word."),
              Update("inputValue", W_empty),
              Update("isInputVisible", FALSE),
              Update("isProcessing", FALSE)>>
    /\ pendingEmbed' = NoWord
    /\ UNCHANGED <<storeVars, coords3d, selectionVars, inputVars, isProcessing, loadVars, nAdded>>
    /\ UNCHANGED hookVars

\* addWord after the await, the embedding failed: the catch block, then finally.
\* The calls are made outside an event handler and are rendered later.
embedRejected ==
    /\ ~effectPending
    /\ pendingEmbed # NoWord
    /\ pendingUpdates' = pendingUpdates \o
            <<Update("validationError", "Failed to generate embedding for this word."),
              Update("isProcessing", FALSE)>>
    /\ pendingEmbed' = NoWord
    /\ UNCHANGED <<storeVars, coords3d, selectionVars, inputVars, isProcessing, loadVars, nAdded>>
    /\ UNCHANGED hookVars

\* the state of one hook once the calls are applied in the order they were made
RECURSIVE Reduce(_, _, _)
Reduce(hook, state, updates) ==
    IF updates = <<>> THEN state
    ELSE LET u == Head(updates) IN
         Reduce(hook,
                IF u.hook # hook THEN state
                ELSE IF hook = "currentVocab" THEN appendWord(state, u.arg)
                ELSE IF hook = "currentEmbeddings" THEN appendEmbedding(state, u.arg)
                ELSE u.arg,
                Tail(updates))

\* the render scheduled by the calls made after an await: every hook takes its
\* calls in order, the projection is recomputed if the embeddings changed and
\* the load effect is scheduled if one of its dependencies changed
render ==
    /\ ~effectPending
    /\ pendingUpdates # <<>>
    /\ currentVocab' = Reduce("currentVocab", currentVocab, pendingUpdates)
    /\ currentEmbeddings' = Reduce("currentEmbeddings", currentEmbeddings, pendingUpdates)
    /\ inputValue' = Reduce("inputValue", inputValue, pendingUpdates)
    /\ isInputVisible' = Reduce("isInputVisible", isInputVisible, pendingUpdates)
    /\ validationError' = Reduce("validationError", validationError, pendingUpdates)
    /\ highlightedWord' = Reduce("highlightedWord", highlightedWord, pendingUpdates)
    /\ isProcessing' = Reduce("isProcessing", isProcessing, pendingUpdates)
    /\ model' = Reduce("model", model, pendingUpdates)
    /\ isModelLoading' = Reduce("isModelLoading", isModelLoading, pendingUpdates)
    /\ coords3d' = coordsMemo(coords3d, currentEmbeddings, currentEmbeddings')
    /\ effectPending' = (model' # model \/ isModelLoading' # isModelLoading)
    /\ pendingUpdates' = <<>>
    /\ UNCHANGED <<nearestIndexes, loadsInFlight, pendingEmbed, loadsStarted, loadFailures, nAdded>>
    /\ UNCHANGED hookVars

\* fallbackAddWord: synchronous, the embedding computed from the letters
fallbackAddWord(newWord) ==
    IF ~validateWord(newWord)
    THEN /\ validationError' = validationMessage(newWord)
         /\ pendingUpdates' = Superseded(pendingUpdates, {"validationError"})
         /\ UNCHANGED <<storeVars, coords3d, highlightedWord, inputValue, isInputVisible, nAdded>>
    ELSE /\ validationError' = ""
         /\ currentVocab' = appendWord(currentVocab, newWord)
         /\ currentEmbeddings' = appendEmbedding(currentEmbeddings, simpleEmbedding(newWord))
         /\ coords3d' = coordsMemo(coords3d, currentEmbeddings, currentEmbeddings')
         /\ inputValue' = W_empty
         /\ isInputVisible' = FALSE
         /\ highlightedWord' = Some(newWord)
         /\ nAdded' = nAdded + 1
         /\ pendingUpdates' = Superseded(pendingUpdates,
                {"validationError", "isProcessing", "inputValue", "isInputVisible",
                 "highlightedWord"})

\* an Add button that always takes the path of the external model
handleAddWord_alwaysModel ==
    /\ ~effectPending
    /\ isInputVisible
    /\ ~isProcessing
    /\ validateWord(inputValue) => nAdded < MaxAdds
    /\ addWord(inputValue)
    /\ UNCHANGED <<storeVars, coords3d, highlightedWord, nAdded>>
    /\ UNCHANGED <<nearestIndexes, loadVars>>
    /\ UNCHANGED hookVars

\* the Add button (shown with the input, disabled while processing); the
\* handler reads the state of the last render
handleAddWord ==
    /\ ~effectPending
    /\ isInputVisible
    /\ ~isProcessing
    /\ validateWord(inputValue) => nAdded < MaxAdds
    /\ IF model
       THEN /\ addWord(inputValue)
            /\ UNCHANGED <<storeVars, coords3d, highlightedWord, nAdded>>
       ELSE /\ fallbackAddWord(inputValue)
            /\ UNCHANGED <<isProcessing, pendingEmbed>>
    /\ UNCHANGED <<nearestIndexes, loadVars>>
    /\ UNCHANGED hookVars

\* -------------------------------------------------------------- the input box
\* the Add Word button: setIsInputVisible(true)
showInput ==
    /\ ~effectPending
    /\ ~isInputVisible \/ \E k \in 1..Len(pendingUpdates) : pendingUpdates[k].hook = "isInputVisible"
    /\ isInputVisible' = TRUE
    /\ pendingUpdates' = Superseded(pendingUpdates, {"isInputVisible"})
    /\ UNCHANGED <<storeVars, coords3d, selectionVars, inputValue, validationError, isProcessing,
                   loadVars, pendingEmbed, nAdded>>
    /\ UNCHANGED hookVars

\* the Cancel button (disabled while processing): setIsInputVisible(false)
cancelInput ==
    /\ ~effectPending
    /\ isInputVisible
    /\ ~isProcessing
    /\ isInputVisible' = FALSE
    /\ pendingUpdates' = Superseded(pendingUpdates, {"isInputVisible"})
    /\ UNCHANGED <<storeVars, coords3d, selectionVars, inputValue, validationError, isProcessing,
                   loadVars, pendingEmbed, nAdded>>
    /\ UNCHANGED hookVars

\* onChange of the input (disabled while processing): setInputValue(e.target.value)
onChange(text) ==
    /\ ~effectPending
    /\ isInputVisible
    /\ ~isProcessing
    /\ inputValue # text
    /\ inputValue' = text
    /\ pendingUpdates' = Superseded(pendingUpdates, {"inputValue"})
    /\ UNCHANGED <<storeVars, coords3d, selectionVars, isInputVisible, validationError, isProcessing,
                   loadVars, pendingEmbed, nAdded>>
    /\ UNCHANGED hookVars

\* ---------------------------------------------------------------- selection
\* a handler whose toggle-off forgets to clear the neighbours
onSelect_keepsNeighbors(i) ==
    /\ ~effectPending
    /\ LET word == currentVocab[i + 1] IN
       IF highlightedWord = Some(word)
       THEN /\ highlightedWord' = NoWord
            /\ nearestIndexes' = nearestIndexes
       ELSE /\ highlightedWord' = Some(word)
            /\ nearestIndexes' = findNearestNeighbors(currentEmbeddings,
                    currentEmbeddings[indexOf(currentVocab, word) + 1], K)
    /\ pendingUpdates' = Superseded(pendingUpdates, {"highlightedWord"})
    /\ UNCHANGED <<storeVars, coords3d, inputVars, isProcessing, loadVars, pendingEmbed, nAdded>>
    /\ UNCHANGED hookVars

\* onSelect of the point rendered for index i (0-based): word = currentVocab[i];
\* the handler is the one of the last render and reads its state, its calls
\* are rendered with the event and come after the calls still to be rendered
onSelect(i) ==
    /\ ~effectPending
    /\ LET word == currentVocab[i + 1] IN
       IF highlightedWord = Some(word)
       THEN /\ highlightedWord' = NoWord
            /\ nearestIndexes' = <<>>
       ELSE /\ highlightedWord' = Some(word)
            /\ LET idx == indexOf(currentVocab, word) IN
               IF idx # -1
               THEN nearestIndexes' = NearestTable[currentEmbeddings][idx + 1]
               ELSE nearestIndexes' = nearestIndexes
    /\ pendingUpdates' = Superseded(pendingUpdates, {"highlightedWord"})
    /\ UNCHANGED <<storeVars, coords3d, inputVars, isProcessing, loadVars, pendingEmbed, nAdded>>
    /\ UNCHANGED hookVars

\* ------------------------------------------------------------ useEmbeddings
\* the promise chain of the effect: setBackend, ready, load, embed, array
HookChain == 5

\* the words lists a caller passes to the hook
HookWordLists == {<<W_cat, W_dog>>, <<W_a>>}

\* the null of useState<number[][] | null>(null)
NoEmbeddings == <<>>

\* model.embed(words) followed by tensor.array(): one vector per word
HookEmbed(words) == [i \in 1..Len(words) |-> USEEmbed(words[i])]

\* the effect has neither run its last callback nor been rejected
HookPending(eff) == eff.resolved < HookChain /\ ~eff.failed

\* the cleanup of the current effect, if there is one: mounted = false
HookCleanup(effects) ==
    IF effects = <<>> THEN effects
    ELSE [effects EXCEPT ![Len(effects)].mounted = FALSE]

\* the body of the effect: let mounted = true, and the chain is started;
\* called records that the last callback has called setEmbeddings
HookEffect(words) ==
    [words |-> words, mounted |-> TRUE, resolved |-> 0, failed |-> FALSE, called |-> FALSE]

\* a last callback that writes the result without testing mounted
hookThen_noMountedTest(e) ==
    /\ e \in 1..Len(hookEffects)
    /\ HookPending(hookEffects[e])
    /\ LET last == hookEffects[e].resolved + 1 = HookChain IN
       /\ hookEffects' = [hookEffects EXCEPT ![e].resolved = @ + 1,
                                             ![e].called = last]
       /\ hookEmbeddings' =
             IF last /\ hookMounted
             THEN Some(HookEmbed(hookEffects[e].words))
             ELSE hookEmbeddings
    /\ UNCHANGED <<hookWords, hookMounted, hookFlush, sceneVars>>

\* the next promise of the chain of effect e resolves; the last callback is
\* array => { if (mounted) setEmbeddings(array) }. A setEmbeddings call on a
\* component that is no longer mounted changes no state.
hookThen(e) ==
    /\ e \in 1..Len(hookEffects)
    /\ HookPending(hookEffects[e])
    /\ LET last == hookEffects[e].resolved + 1 = HookChain IN
       /\ hookEffects' = [hookEffects EXCEPT ![e].resolved = @ + 1,
                                             ![e].called = last /\ hookEffects[e].mounted]
       /\ hookEmbeddings' =
             IF last /\ hookEffects[e].mounted /\ hookMounted
             THEN Some(HookEmbed(hookEffects[e].words))
             ELSE hookEmbeddings
    /\ UNCHANGED <<hookWords, hookMounted, hookFlush, sceneVars>>

\* a promise of the chain of effect e rejects: .catch logs the error
hookCatch(e) ==
    /\ e \in 1..Len(hookEffects)
    /\ HookPending(hookEffects[e])
    /\ hookEffects' = [hookEffects EXCEPT ![e].failed = TRUE]
    /\ UNCHANGED <<hookWords, hookEmbeddings, hookMounted, hookFlush, sceneVars>>

\* a render with another words array is committed: the dependency [words]
\* has changed, the cleanup and the effect are scheduled and run later (the
\* effects of the render before are run before a new render starts)
hookRender(words) ==
    /\ hookMounted
    /\ ~hookFlush
    /\ Len(hookEffects) < MaxHookEffects
    /\ hookWords' = words
    /\ hookFlush' = TRUE
    /\ UNCHANGED <<hookEmbeddings, hookEffects, hookMounted, sceneVars>>

\* the scheduled effects are run: the cleanup of the effect of the render
\* before (mounted = false), then, unless the caller was unmounted, the effect
\* for the words of the last render
hookFlushEffects ==
    /\ hookFlush
    /\ hookFlush' = FALSE
    /\ hookEffects' = IF hookMounted
                      THEN Append(HookCleanup(hookEffects), HookEffect(hookWords))
                      ELSE HookCleanup(hookEffects)
    /\ UNCHANGED <<hookWords, hookEmbeddings, hookMounted, sceneVars>>

\* the calling component is unmounted: the cleanup of the current effect is
\* scheduled and run later
hookUnmount ==
    /\ hookMounted
    /\ ~hookFlush
    /\ hookMounted' = FALSE
    /\ hookFlush' = TRUE
    /\ UNCHANGED <<hookWords, hookEmbeddings, hookEffects, sceneVars>>

\* the hook after the first render of its caller is committed: null, the
\* effect scheduled
HookRendered(words) ==
    /\ hookMounted = TRUE
    /\ hookWords = words
    /\ hookEmbeddings = NoEmbeddings
    /\ hookEffects = <<>>
    /\ hookFlush = TRUE

\* the hook of Page when the scene is rendered: the embeddings of the props
\* were delivered by the one effect of the constant words list
HookDelivered(props) ==
    /\ hookMounted = TRUE
    /\ hookWords = props.vocab
    /\ hookEmbeddings = Some(props.embeddings)
    /\ hookEffects = <<[HookEffect(props.vocab) EXCEPT !.resolved = HookChain,
                                                       !.called = TRUE]>>
    /\ hookFlush = FALSE

\* ------------------------------------------------------------ specification
Next ==
    \/ loadUSEModel
    \/ loadResolved
    \/ loadRejected
    \/ handleAddWord
    \/ embedResolved
    \/ embedRejected
    \/ render
    \/ showInput
    \/ cancelInput
    \/ \E text \in InputWords : onChange(text)
    \/ \E i \in 0..(Len(currentEmbeddings) - 1) : onSelect(i)

Init == Mounted(PropsScenario) /\ HookDelivered(PropsScenario)

Spec == Init /\ [][Next]_vars

\* the same component mounted with the seven-word props
InitSeven == Mounted(PropsSeven) /\ HookDelivered(PropsSeven)

SpecSeven == InitSeven /\ [][Next]_vars

\* the same component mounted with one of the seed lists
InitSeeds == \E props \in SeedProps : Mounted(props) /\ HookDelivered(props)

SpecSeeds == InitSeeds /\ [][Next]_vars

\* The scheduling of the runtime: an effect scheduled by a commit is run, the
\* continuation of addWord is run once its embed request has settled
\* (resolved or rejected), and a scheduled render is run.
Fairness ==
    /\ WF_vars(loadUSEModel)
    /\ WF_vars(embedResolved \/ embedRejected)
    /\ WF_vars(render)

SpecFair == Init /\ [][Next]_vars /\ Fairness

\* the hook on its own, from the first commit of its caller; the scene is not
\* rendered while the hook returns null, its state is held at an empty mount
NextHook ==
    \/ \E e \in 1..MaxHookEffects : hookThen(e)
    \/ \E e \in 1..MaxHookEffects : hookCatch(e)
    \/ \E words \in HookWordLists : hookRender(words)
    \/ hookFlushEffects
    \/ hookUnmount

InitHook ==
    /\ \E words \in HookWordLists : HookRendered(words)
    /\ Mounted([vocab |-> <<>>, embeddings |-> <<>>])

SpecHook == InitHook /\ [][NextHook]_vars

\* =================================================================== claims
\* the word occurs in the vocabulary, compared case-insensitively
InVocabIgnoringCase(vocab, w) ==
    \E i \in 1..Len(vocab) : toLowerCase(vocab[i]) = toLowerCase(w)

\* the step appends a word to the vocabulary
Grows == Len(currentVocab') > Len(currentVocab)

NewWord == currentVocab'[Len(currentVocab')]

\* the step is the render of the calls made after an await
Rendering == pendingUpdates # <<>> /\ pendingUpdates' = <<>>

\* the lookup of the selection: position of the word, then the embedding there
Lookup(vocab, embeddings, w) == embeddings[indexOf(vocab, w) + 1]

Range(s) == {s[i] : i \in 1..Len(s)}

\* C1: a word that is already in the vocabulary (compared case-insensitively)
\* is never appended: an add of such a word leaves the store as it is.
C1_DuplicateRejected ==
    [][Grows => ~InVocabIgnoringCase(currentVocab, NewWord)]_vars

\* C2: in every reachable state all vectors of the store have the same length.
C2_SameDimension ==
    \A i, j \in 1..Len(currentEmbeddings) :
        Len(currentEmbeddings[i]) = Len(currentEmbeddings[j])

\* C3: the store is append-only with stable indices: every step leaves each
\* (word, vector) pair at its position and grows both lists by at most one
\* element, at the end.
C3_AppendOnly ==
    [][/\ Len(currentVocab') \in {Len(currentVocab), Len(currentVocab) + 1}
       /\ Len(currentEmbeddings') \in {Len(currentEmbeddings), Len(currentEmbeddings) + 1}
       /\ SubSeq(currentVocab', 1, Len(currentVocab)) = currentVocab
       /\ SubSeq(currentEmbeddings', 1, Len(currentEmbeddings)) = currentEmbeddings]_vars

\* two adds, a rejected add and a load behind it, the props still in front
C3_Witness ==
    /\ nAdded >= 2
    /\ model
    /\ validationError # ""
    /\ highlightedWord # NoWord
    /\ SubSeq(currentVocab, 1, Len(PropsScenario.vocab)) = PropsScenario.vocab
    /\ SubSeq(currentEmbeddings, 1, Len(PropsScenario.embeddings)) = PropsScenario.embeddings

\* C4: when a word that is not in the vocabulary is added, the lookup of that
\* word returns the vector produced for it (the external model's when the
\* result of an embed request is rendered, the fallback's otherwise); and no
\* step changes what the lookup returns for a word already in the vocabulary.
C4_LookupReturnsAppended ==
    [][/\ \A i \in 1..Len(currentVocab) :
             Lookup(currentVocab', currentEmbeddings', currentVocab[i])
                 = Lookup(currentVocab, currentEmbeddings, currentVocab[i])
       /\ (Grows /\ indexOf(currentVocab, NewWord) = -1) =>
             Lookup(currentVocab', currentEmbeddings', NewWord)
                 = IF Rendering
                   THEN USEEmbed(toLowerCase(NewWord))
                   ELSE simpleEmbedding(NewWord)]_vars

\* a word added once by the fallback and later again by the external model: the
\* lookup still returns the first vector
C4_Witness ==
    /\ nAdded = 2
    /\ currentVocab[Len(currentVocab)] = currentVocab[Len(currentVocab) - 1]
    /\ currentEmbeddings[Len(currentVocab)] # currentEmbeddings[Len(currentVocab) - 1]
    /\ Lookup(currentVocab, currentEmbeddings, currentVocab[Len(currentVocab)])
           = simpleEmbedding(currentVocab[Len(currentVocab)])

\* C5: while a word is highlighted, the highlighted neighbour indices do not
\* contain that word's own index.
C5_NeighborsExcludeSelf ==
    highlightedWord # NoWord =>
        indexOf(currentVocab, highlightedWord[1]) \notin Range(nearestIndexes)

\* C6: selecting a word of a store of n words yields exactly min(k, n-1)
\* neighbour indices, all distinct, all positions of the store, and every other
\* word when fewer than k other words exist.
C6_NeighborCount ==
    [][\A i \in 0..(Len(currentVocab) - 1) :
          (highlightedWord # Some(currentVocab[i + 1]) /\ onSelect(i)) =>
              /\ Len(nearestIndexes') = Min(K, Len(currentVocab) - 1)
              /\ Cardinality(Range(nearestIndexes')) = Len(nearestIndexes')
              /\ Range(nearestIndexes') \subseteq 0..(Len(currentVocab) - 1)
              /\ Len(currentVocab) - 1 < K =>
                    Range(nearestIndexes')
                        = (0..(Len(currentVocab) - 1)) \ {indexOf(currentVocab, currentVocab[i + 1])}]_vars

\* x comes before y in the reference order: ascending distance, an undefined
\* distance last, ties by ascending index
ReferenceBefore(x, y) ==
    IF x.distance.nan # y.distance.nan THEN y.distance.nan
    ELSE IF x.distance.nan THEN x.index < y.index
    ELSE \/ x.distance.order < y.distance.order
         \/ x.distance.order = y.distance.order /\ x.index < y.index

RECURSIVE ReferenceOrder(_)
ReferenceOrder(items) ==
    IF items = {} THEN <<>>
    ELSE LET first == CHOOSE x \in items : \A y \in items \ {x} : ReferenceBefore(x, y)
         IN <<first>> \o ReferenceOrder(items \ {first})

\* the reference nearest(query, excludeIndex, k) of the similarity index
ReferenceNearest(embeddings, excludeIndex, k) ==
    LET items == distanceItems(embeddings, embeddings[excludeIndex + 1], Len(embeddings))
        ordered == ReferenceOrder({x \in Range(items) : x.index # excludeIndex})
    IN [i \in 1..Min(k, Len(ordered)) |-> ordered[i].index]

\* C7: the neighbours a selection computes are those of the reference operator:
\* every index but the selected word's, by ascending cosine distance, ties by
\* ascending index, the first k.
C7_MatchesReference ==
    [][\A i \in 0..(Len(currentVocab) - 1) :
          (highlightedWord # Some(currentVocab[i + 1]) /\ onSelect(i)) =>
              nearestIndexes'
                  = ReferenceNearest(currentEmbeddings,
                                     indexOf(currentVocab, currentVocab[i + 1]), K)]_vars

\* C8: after a successful add the new word is highlighted with freshly computed
\* neighbours: the k nearest of its vector over the store that holds it.
C8_FreshNeighborsOnAdd ==
    [][Grows =>
          /\ highlightedWord' = Some(NewWord)
          /\ nearestIndexes'
                = findNearestNeighbors(currentEmbeddings',
                                       currentEmbeddings'[Len(currentEmbeddings')], K)]_vars

\* C9: selecting the highlighted word again clears the highlight and the
\* neighbour indices, and no selection changes the store.
C9_ToggleOff ==
    [][\A i \in 0..(Len(currentVocab) - 1) :
          /\ (highlightedWord = Some(currentVocab[i + 1]) /\ onSelect(i)) =>
                 (highlightedWord' = NoWord /\ nearestIndexes' = <<>>)
          /\ onSelect(i) => UNCHANGED storeVars]_vars

\* a word was added (and with that highlighted), and the selection is idle again
C9_Witness ==
    /\ nAdded >= 1
    /\ Len(currentVocab) > Len(PropsScenario.vocab)
    /\ highlightedWord = NoWord
    /\ nearestIndexes = <<>>

\* C10: the external model load is started at most once.
C10_LoadAtMostOnce == loadsStarted <= 1

\* the effect has called setIsModelLoading(true) and the call is not rendered yet
LoadingQueued ==
    \E k \in 1..Len(pendingUpdates) :
        /\ pendingUpdates[k].hook = "isModelLoading"
        /\ pendingUpdates[k].arg

\* C11: two loads of the external model are never in flight together; a load
\* in flight is marked by isModelLoading, rendered or set and waiting for its
\* render, and while a load is in flight no step (no re-run of the effect,
\* whatever was added or selected meanwhile) starts another one.
C11_OneLoadInFlight ==
    /\ [](loadsInFlight <= 1)
    /\ [](loadsInFlight = 1 => isModelLoading \/ LoadingQueued)
    /\ [][loadsInFlight >= 1 => loadsStarted' = loadsStarted]_vars

\* a second load (after a rejected one) is suspended and marked, the effect has
\* run again after the render of the mark, and a word was added and another
\* selected meanwhile
C11_Witness ==
    /\ loadsInFlight = 1
    /\ loadsStarted = 2
    /\ isModelLoading
    /\ pendingUpdates = <<>>
    /\ ~effectPending
    /\ nAdded >= 1
    /\ nearestIndexes # <<>>

MsgEmbedFailed == "Failed to generate embedding for this word."
MsgStillLoading == "Model is still loading. Please try again in a moment."

\* C12: once the external model has reported a failure (a rejected load, or
\* the message of a failed embed call on screen), no embed request is started
\* any more and every word added gets the fallback vector.
C12_FallbackPermanent ==
    [][(loadFailures > 0 \/ validationError = MsgEmbedFailed) =>
          /\ pendingEmbed' # NoWord => pendingEmbed' = pendingEmbed
          /\ Grows => currentEmbeddings'[Len(currentEmbeddings')]
                          = simpleEmbedding(NewWord)]_vars

\* C13: a press of Add dispatches on the model of that moment: with a model an
\* embed request for the word is started, without one a valid word is appended
\* with its fallback vector and no message; the 'Model is still loading'
\* message is never set.
C13_DispatchOnModel ==
    [][handleAddWord =>
          /\ validationError' # MsgStillLoading
          /\ validateWord(inputValue) =>
                IF model
                THEN /\ pendingEmbed' = Some(inputValue)
                     /\ UNCHANGED storeVars
                ELSE /\ currentVocab' = Append(currentVocab, inputValue)
                     /\ currentEmbeddings'
                           = Append(currentEmbeddings, simpleEmbedding(inputValue))
                     /\ validationError' = ""
                     /\ pendingEmbed' = NoWord]_vars

\* a load has failed, no model is there, and a word was added by the fallback
C13_Witness ==
    /\ loadFailures >= 1
    /\ ~model
    /\ nAdded >= 1
    /\ currentEmbeddings[Len(currentEmbeddings)]
          = simpleEmbedding(currentVocab[Len(currentVocab)])
    /\ validationError = ""

\* the step is a fallback add: the store grows in the event itself, not in the
\* render of the result of an embed request
FallbackAdds == Grows /\ ~Rendering

\* the positions of the store filled by fallback adds: behind the props, with
\* a vector of the fallback's length
FallbackPositions ==
    {j \in (Len(PropsScenario.vocab) + 1)..Len(currentVocab) :
        Len(currentEmbeddings[j]) = FallbackDim}

\* the letter component i is computed from: position i mod length of the
\* lower-cased word
LetterAt(w, i) == toLowerCase(w)[(i % Len(w)) + 1]

ZeroNorm(v) == \A i \in 1..Len(v) : v[i] = 0

\* the 0-based indices of the vectors of non-zero norm, ascending
KeptIndexes(embeddings) ==
    SelectSeq([i \in 1..Len(embeddings) |-> i - 1],
              LAMBDA i : ~ZeroNorm(embeddings[i + 1]))

\* the neighbours of the query over the store without its zero-norm vectors,
\* as indices of the whole store
NeighborsWithoutZero(embeddings, query) ==
    LET keep == KeptIndexes(embeddings)
        kept == [j \in 1..Len(keep) |-> embeddings[keep[j] + 1]]
        found == findNearestNeighbors(kept, query, Len(kept))
    IN [j \in 1..Len(found) |-> keep[found[j] + 1]]

IsPrefix(s, t) == Len(s) <= Len(t) /\ SubSeq(t, 1, Len(s)) = s

\* C15: in the neighbours a selection computes for a word of non-zero norm,
\* no index of a zero-norm vector comes before an index of a vector of non-zero
\* norm, and the indices of the vectors of non-zero norm are in the order they
\* have when the zero-norm vectors are left out of the store.
C15_ZeroNormLast ==
    [][\A i \in 0..(Len(currentVocab) - 1) :
          (/\ highlightedWord # Some(currentVocab[i + 1])
           /\ onSelect(i)
           /\ ~ZeroNorm(Lookup(currentVocab, currentEmbeddings, currentVocab[i + 1]))) =>
              LET ni == nearestIndexes'
                  zero(x) == ZeroNorm(currentEmbeddings[x + 1])
              IN /\ \A p, q \in 1..Len(ni) : (p < q /\ zero(ni[p])) => zero(ni[q])
                 /\ IsPrefix(SelectSeq(ni, LAMBDA x : ~zero(x)),
                             NeighborsWithoutZero(currentEmbeddings,
                                 Lookup(currentVocab, currentEmbeddings,
                                        currentVocab[i + 1])))]_vars

MsgEnterWord == "Please enter a word."
MsgLettersOnly == "Invalid word. Please use only letters."

\* C16: a press of Add with an input that is empty, blank or holds a
\* character that is no letter sets a validation message, starts no embed
\* request and leaves vocabulary, embeddings, highlighted word and neighbour
\* indices as they are, with or without a model; a press with a valid input
\* clears the message and adds the word or starts its embedding, and a word
\* is only ever appended with the message cleared.
C16_InvalidRejected ==
    [][/\ handleAddWord =>
            IF trimIsEmpty(inputValue) \/ ~onlyLetters(inputValue)
            THEN /\ validationError' \in {MsgEnterWord, MsgLettersOnly}
                 /\ pendingEmbed' = NoWord
                 /\ UNCHANGED <<storeVars, selectionVars>>
            ELSE /\ validationError' = ""
                 /\ pendingEmbed' = Some(inputValue) \/ Grows
       /\ Grows => validationError' = ""]_vars

\* with the model loaded and a word added and another selected before, an
\* input with a digit was rejected
C16_Witness ==
    /\ model
    /\ validationError = MsgLettersOnly
    /\ inputValue = W_a1
    /\ nAdded = 1
    /\ pendingEmbed = NoWord
    /\ nearestIndexes # <<>>

\* C17: in every state the coordinates shown are the projection of the current
\* embeddings, one coordinate per word of the vocabulary.
C17_CoordsCurrent ==
    /\ coords3d.data = currentEmbeddings
    /\ Len(coords3d.data) = Len(currentVocab)

\* an embed request completed after the user had selected a word: the new
\* word is highlighted, the older neighbours are still there, and the
\* coordinates cover the grown store
C17_Witness ==
    /\ Len(coords3d.data) > Len(PropsScenario.vocab)
    /\ model
    /\ highlightedWord = Some(currentVocab[Len(currentVocab)])
    /\ nearestIndexes # <<>>

\* C18: a highlighted word is a word of the vocabulary, and every neighbour
\* index is a position of the store.
C18_SelectionInStore ==
    /\ highlightedWord # NoWord => indexOf(currentVocab, highlightedWord[1]) # -1
    /\ Range(nearestIndexes) \subseteq 0..(Len(currentEmbeddings) - 1)

\* two words added, the second highlighted, over the neighbours of a selection
C18_Witness ==
    /\ nAdded = 2
    /\ highlightedWord = Some(currentVocab[Len(currentVocab)])
    /\ Len(nearestIndexes) = Len(PropsScenario.vocab)

\* C19: for any two vectors of the store of equal length, the distance from
\* the first to the second and the distance from the second to the first are
\* both NaN or are the same number.
C19_Symmetric ==
    \A i, j \in 1..Len(currentEmbeddings) :
        Len(currentEmbeddings[i]) = Len(currentEmbeddings[j]) =>
            LET d1 == DistanceTable[currentEmbeddings[i], currentEmbeddings[j]]
                d2 == DistanceTable[currentEmbeddings[j], currentEmbeddings[i]]
            IN /\ d1.nan = d2.nan
               /\ ~d1.nan => d1.order = d2.order

\* the word with the zero vector is selected, with neighbours, in a store that
\* also holds two fallback vectors
C19_Witness ==
    /\ nAdded = 2
    /\ highlightedWord # NoWord
    /\ ZeroNorm(Lookup(currentVocab, currentEmbeddings, highlightedWord[1]))
    /\ nearestIndexes # <<>>
    /\ Len(currentEmbeddings[Len(currentEmbeddings)]) = FallbackDim
    /\ Len(currentEmbeddings[Len(currentEmbeddings) - 1]) = FallbackDim

\* C20: the projection shown was computed with nNeighbors = min(5, n - 1) for
\* the n vectors of the store, and that number is at least 1 and less than n.
C20_NeighborhoodSize ==
    /\ coords3d.nNeighbors = Min(NNeighborsMax, Len(currentEmbeddings) - 1)
    /\ coords3d.nNeighbors < Len(currentEmbeddings)
    /\ coords3d.nNeighbors >= 1

\* C21: the vocabulary and the embeddings have the same length; the positions
\* of the props hold the props' words and vectors, and every later position
\* holds a vector produced for the word at that position (the external
\* model's or the fallback's).
C21_ListsParallel ==
    /\ Len(currentVocab) = Len(currentEmbeddings)
    /\ \A i \in 1..Len(currentVocab) :
          IF i <= Len(PropsScenario.vocab)
          THEN /\ currentVocab[i] = PropsScenario.vocab[i]
               /\ currentEmbeddings[i] = PropsScenario.embeddings[i]
          ELSE currentEmbeddings[i] \in {USEEmbed(toLowerCase(currentVocab[i])),
                                         simpleEmbedding(currentVocab[i])}

\* a word added by the fallback, a word added by the external model, then an
\* input rejected by validation, with a selection's neighbours on screen
C21_Witness ==
    /\ Len(currentVocab) = Len(PropsScenario.vocab) + 2
    /\ Len(currentEmbeddings[Len(currentEmbeddings) - 1]) = FallbackDim
    /\ Len(currentEmbeddings[Len(currentEmbeddings)]) # FallbackDim
    /\ validationError = MsgLettersOnly
    /\ nearestIndexes # <<>>

\* the step settles an embed request without a new word: the request failed
EmbedFails == pendingEmbed # NoWord /\ pendingEmbed' = NoWord /\ nAdded' = nAdded

\* the step renders the calls of a failed embed request
FailureRendered ==
    /\ Rendering
    /\ \E k \in 1..Len(pendingUpdates) :
          /\ pendingUpdates[k].hook = "validationError"
          /\ pendingUpdates[k].arg = MsgEmbedFailed

\* C22: when the embed request of an add fails, vocabulary, embeddings,
\* highlighted word and neighbour indices stay as they are, the message
\* 'Failed to generate embedding for this word.' is set, processing ends, and
\* the input stays visible with the word that was typed: the input is visible
\* and holds the word while the request is pending, the failing step changes
\* nothing on screen, and the render of the failure sets the message and ends
\* processing and leaves store, selection and input as they are.
C22_FailedEmbedNoEffect ==
    /\ [](pendingEmbed # NoWord => isInputVisible /\ inputValue = pendingEmbed[1])
    /\ [][/\ EmbedFails =>
               UNCHANGED <<storeVars, selectionVars, inputVars, isProcessing>>
          /\ FailureRendered =>
               /\ UNCHANGED <<storeVars, selectionVars>>
               /\ validationError' = MsgEmbedFailed
               /\ ~isProcessing'
               /\ isInputVisible'
               /\ inputValue' = inputValue]_vars

\* after a word was added and selected away from, an embed request for "ab"
\* has failed: the message is shown and the input still holds "ab"
C22_Witness ==
    /\ validationError = MsgEmbedFailed
    /\ isInputVisible
    /\ inputValue = W_ab
    /\ ~isProcessing
    /\ nAdded >= 1
    /\ nearestIndexes # <<>>

\* C23: while an embed request is pending isProcessing is true, the Add
\* button does nothing while isProcessing is true, a pending request is only
\* ever replaced by none, and isProcessing, once true, becomes false again
\* (the request settles and its calls are rendered).
C23_OneAddInFlight ==
    /\ [](pendingEmbed # NoWord => isProcessing)
    /\ [][/\ isProcessing => ~handleAddWord
          /\ pendingEmbed # NoWord => pendingEmbed' \in {pendingEmbed, NoWord}]_vars
    /\ (isProcessing ~> ~isProcessing)

\* after one add has finished, the embed request of a second add is pending
C23_Witness ==
    /\ nAdded = 1
    /\ pendingEmbed # NoWord
    /\ isProcessing
    /\ ~effectPending

\* the step runs the last callback of effect e
LastCallback(e) ==
    /\ hookEffects[e].resolved = HookChain - 1
    /\ hookEffects'[e].resolved = HookChain

\* C24: the result of a computation is applied only while the effect that
\* started it is current: setEmbeddings is called only in the last callback of
\* an effect whose cleanup has not run, and the state changes only in such a
\* step, to the embeddings of that effect's words; every effect but the last
\* one started has had its cleanup, the last callback of an effect whose
\* cleanup has run (the words list changed, or the caller was unmounted)
\* neither calls setEmbeddings nor changes the state, and a rejected
\* computation leaves the state as it is.
C24_OnlyCurrentEffectWrites ==
    /\ [](\A e \in 1..(Len(hookEffects) - 1) : ~hookEffects[e].mounted)
    /\ [][/\ \A e \in 1..Len(hookEffects) :
               /\ (hookEffects'[e].called /\ ~hookEffects[e].called) =>
                      LastCallback(e) /\ hookEffects[e].mounted
               /\ (LastCallback(e) /\ ~hookEffects[e].mounted) =>
                      /\ ~hookEffects'[e].called
                      /\ hookEmbeddings' = hookEmbeddings
               /\ (hookEffects'[e].failed /\ ~hookEffects[e].failed) =>
                      hookEmbeddings' = hookEmbeddings
          /\ hookEmbeddings' # hookEmbeddings =>
               LET e == Len(hookEffects) IN
               /\ LastCallback(e)
               /\ hookEffects[e].mounted
               /\ hookEmbeddings' = Some(HookEmbed(hookEffects[e].words))]_vars

\* the effect of the first words list resolved after its cleanup and called
\* nothing, the effect of the second list was rejected: the state is still
\* null; the caller was then unmounted and the cleanup has run
C24_Witness ==
    /\ Len(hookEffects) = 2
    /\ hookEffects[1].resolved = HookChain
    /\ ~hookEffects[1].mounted
    /\ ~hookEffects[1].called
    /\ hookEffects[2].failed
    /\ ~hookEffects[2].mounted
    /\ ~hookMounted
    /\ hookEmbeddings = NoEmbeddings
====
